---- MODULE Spec2Model ----
(***************************************************************************)
(* A model of app2.py: the PDF style analyser, the request interpreter,    *)
(* the SVG generator, the three-stage pipeline and the Streamlit script    *)
(* main() that drives them.                                                *)
(*                                                                         *)
(* JSON values (the results of json.loads) are tagged records; Python's    *)
(* None and JSON null are the same value.  Reply texts of the SVG stage    *)
(* are sequences of one-character strings, so that str.find and slicing    *)
(* are computed position by position.                                      *)
(***************************************************************************)
EXTENDS Integers, Sequences, FiniteSets, TLC

(***************************************************************************)
(* Bounds of the model.                                                    *)
(***************************************************************************)
MaxPages == 2        \* largest page count of an uploaded PDF
MaxPieces == 3       \* largest number of text pieces in an SVG-stage reply
MaxRuns == 2         \* pipeline runs counted in one session
MaxMerge == 3        \* longest list handed to merge_styles on its own
MaxPdfPages == 12    \* largest page count of a PDF analysed on its own

(***************************************************************************)
(* JSON values and Python's view of them.                                  *)
(***************************************************************************)
None == [t |-> "null"]
JStr(s) == [t |-> "str", s |-> s]
JBool(b) == [t |-> "bool", b |-> b]
JList(q) == [t |-> "list", items |-> q]
JObj(f) == [t |-> "obj", f |-> f]
EmptyMap == [k \in {} |-> None]

\* bool(x) of a value produced by json.loads
Truthy(j) ==
  CASE j.t = "null" -> FALSE
    [] j.t = "str" -> j.s # ""
    [] j.t = "bool" -> j.b
    [] j.t = "list" -> j.items # <<>>
    [] j.t = "obj" -> DOMAIN j.f # {}
    [] OTHER -> TRUE

\* x.get(key, default): defined on dicts only (HasGet), AttributeError otherwise
HasGet(j) == j.t = "obj"
Get(d, key, default) == IF key \in DOMAIN d.f THEN d.f[key] ELSE default

Categories == {"color_palette", "typography", "layout", "visual_style"}

(***************************************************************************)
(* PPTStyleAnalyzer.merge_styles                                           *)
(***************************************************************************)
Raised == [t |-> "raise"]

\* a merge that also stores empty values
MergeIntoKeepsEmpty(acc, d) ==
  [k \in DOMAIN acc \cup DOMAIN d.f |-> IF k \in DOMAIN acc THEN acc[k] ELSE d.f[k]]

\* a merge in which a later page overwrites an earlier one
MergeIntoLastWins(acc, d) ==
  [k \in DOMAIN acc \cup {x \in DOMAIN d.f : Truthy(d.f[x])} |->
     IF k \in DOMAIN d.f /\ Truthy(d.f[k]) THEN d.f[k] ELSE acc[k]]

\* the loop body "if key not in merged[category] and value: merged[category][key] = value"
MergeInto(acc, d) ==
  [k \in DOMAIN acc \cup {x \in DOMAIN d.f : Truthy(d.f[x])} |->
     IF k \in DOMAIN acc THEN acc[k] ELSE d.f[k]]

\* "for style in styles_list: if style.get(category): for key, value in ...items()"
RECURSIVE MergeCategory(_, _, _, _)
MergeCategory(styles, cat, i, acc) ==
  IF i > Len(styles) THEN acc
  ELSE LET v == Get(styles[i], cat, None)
       IN MergeCategory(styles, cat, i + 1,
                        IF Truthy(v) THEN MergeInto(acc, v) ELSE acc)

\* the last loop: the first style with a truthy brand_description, else ""
RECURSIVE MergeBrand(_, _)
MergeBrand(styles, i) ==
  IF i > Len(styles) THEN JStr("")
  ELSE LET v == Get(styles[i], "brand_description", None)
       IN IF Truthy(v) THEN v ELSE MergeBrand(styles, i + 1)

\* any(style.get("has_diagrams", False) for style in styles_list)
AnyDiagrams(styles) ==
  \E i \in 1..Len(styles) : Truthy(Get(styles[i], "has_diagrams", JBool(FALSE)))

\* the merge raises when a style has no .get or a truthy category has no .items()
MergeRaises(styles) ==
  \E i \in 1..Len(styles) :
     \/ ~HasGet(styles[i])
     \/ \E cat \in Categories :
          LET v == Get(styles[i], cat, None) IN Truthy(v) /\ v.t # "obj"

merge_styles(styles_list) ==
  IF styles_list = <<>> THEN None
  ELSE IF Len(styles_list) = 1 THEN styles_list[1]
  ELSE IF MergeRaises(styles_list) THEN Raised
  ELSE JObj([color_palette |-> JObj(MergeCategory(styles_list, "color_palette", 1, EmptyMap)),
             typography |-> JObj(MergeCategory(styles_list, "typography", 1, EmptyMap)),
             layout |-> JObj(MergeCategory(styles_list, "layout", 1, EmptyMap)),
             visual_style |-> JObj(MergeCategory(styles_list, "visual_style", 1, EmptyMap)),
             brand_description |-> MergeBrand(styles_list, 1),
             has_diagrams |-> JBool(AnyDiagrams(styles_list))])

(***************************************************************************)
(* Texts of the SVG stage: str.find, slicing and the marker search of      *)
(* SVGGenerator.generate_svg.                                              *)
(***************************************************************************)
JText(c) == [t |-> "text", chars |-> c]

OpenMarker == <<"<", "s", "v", "g">>
CloseMarker == <<"<", "/", "s", "v", "g", ">">>
CloseLen == 6        \* the "+ 6" added to find('</svg>')

\* s.find(pat): the least index (from 0) at which pat occurs in s, -1 if none
Find(s, pat) ==
  LET hits == {i \in 0..(Len(s) - Len(pat)) : SubSeq(s, i + 1, i + Len(pat)) = pat}
  IN IF hits = {} THEN -1 ELSE CHOOSE i \in hits : \A j \in hits : i <= j

\* s[a:b] for indices a, b >= 0
Slice(s, a, b) == SubSeq(s, a + 1, IF b < Len(s) THEN b ELSE Len(s))

\* lines 370-378: the (clean_svg) of a reply text, or found = FALSE
ExtractSvg(svg_content) ==
  LET svg_start == Find(svg_content, OpenMarker)
      svg_end == Find(svg_content, CloseMarker) + CloseLen
  IN IF svg_start # -1 /\ svg_end # -1
       THEN [found |-> TRUE, clean_svg |-> JText(Slice(svg_content, svg_start, svg_end))]
       ELSE [found |-> FALSE, clean_svg |-> None]

\* bool(x) of an SVG-stage value: None and the empty string are falsy
TruthySvg(x) == x.t = "text" /\ x.chars # <<>>

(***************************************************************************)
(* SVGGenerator.create_svg_prompt                                          *)
(***************************************************************************)
SimplePrompt == [simple |-> TRUE]

\* ', '.join(x) raises TypeError unless x iterates over strings
JoinRaises(x) ==
  CASE x.t = "str" -> FALSE
    [] x.t = "obj" -> FALSE
    [] x.t = "list" -> \E i \in 1..Len(x.items) : x.items[i].t # "str"
    [] OTHER -> TRUE

PromptRaises(style_data, content_data) ==
  \/ ~HasGet(style_data)
  \/ \E cat \in Categories : ~HasGet(Get(style_data, cat, JObj(EmptyMap)))
  \/ ~HasGet(content_data)
  \/ JoinRaises(Get(content_data, "specific_elements", JList(<<>>)))

create_svg_prompt(style_data, content_data) ==
  IF ~Truthy(style_data) \/ ~Truthy(content_data) THEN SimplePrompt
  ELSE IF PromptRaises(style_data, content_data) THEN Raised
  ELSE LET colors == Get(style_data, "color_palette", JObj(EmptyMap))
           typography == Get(style_data, "typography", JObj(EmptyMap))
           layout == Get(style_data, "layout", JObj(EmptyMap))
           visual_style == Get(style_data, "visual_style", JObj(EmptyMap))
       IN [simple |-> FALSE,
           primary_color |-> Get(colors, "primary", JStr("#1f4e79")),
           secondary_color |-> Get(colors, "secondary", JStr("#5b9bd5")),
           accent_color |-> Get(colors, "accent", JStr("#f79646")),
           background_color |-> Get(colors, "background", JStr("#ffffff")),
           text_color |-> Get(colors, "text", JStr("#2f2f2f")),
           title_font |-> Get(typography, "title_font", JStr("Arial Bold")),
           body_font |-> Get(typography, "body_font", JStr("Arial Regular")),
           alignment |-> Get(layout, "alignment", JStr("center")),
           title_position |-> Get(layout, "title_position", JStr("top-center")),
           design_approach |-> Get(visual_style, "design_approach", JStr("professional")),
           content_type |-> Get(content_data, "content_type", JStr("diagram")),
           main_topic |-> Get(content_data, "main_topic", JStr("Technical diagram")),
           specific_elements |-> Get(content_data, "specific_elements", JList(<<>>))]

(***************************************************************************)
(* Replies of the chat-completion endpoint.                                *)
(***************************************************************************)
NetErr == [kind |-> "neterr"]                  \* requests.post raises
Http(s, b) == [kind |-> "http", status |-> s, body |-> b]
BadBody == [ok |-> FALSE]                      \* response.json() or ['choices'][0]... raises
Body(c) == [ok |-> TRUE, content |-> c]        \* the message content
NotJson == [t |-> "notjson"]                   \* a content json.loads rejects

StyleA ==
  JObj([color_palette |-> JObj([primary |-> JStr("#111"), secondary |-> JStr("")]),
        typography |-> JObj([title_font |-> JStr("Georgia")]),
        brand_description |-> JStr("plain"),
        has_diagrams |-> JBool(TRUE)])
StyleB ==
  JObj([color_palette |-> JObj([primary |-> JStr("#222"), secondary |-> JStr("#333")]),
        layout |-> JObj([alignment |-> JStr("left")]),
        brand_description |-> JStr("bold")])
StyleNullPalette == JObj([color_palette |-> None, brand_description |-> JStr("bare")])
StyleBadCategory == JObj([typography |-> JStr("serif")])

PageJson == {StyleA, StyleB, StyleNullPalette, StyleBadCategory, JObj(EmptyMap), JStr("n/a")}

ContentA ==
  JObj([content_type |-> JStr("diagram"), main_topic |-> JStr("network"),
        specific_elements |-> JList(<<JStr("input"), JStr("output")>>)])
ContentMixedElements == JObj([main_topic |-> JStr("table"), specific_elements |-> JList(<<JBool(TRUE)>>)])
ContentNullElements == JObj([specific_elements |-> None])
ContentStrElements == JObj([specific_elements |-> JStr("axes")])

ContentJson == {ContentA, ContentMixedElements, ContentNullElements, ContentStrElements,
                JObj(EmptyMap), JList(<<JStr("chart")>>)}

Failures == {NetErr, Http(500, BadBody), Http(200, BadBody)}
PageReplies == Failures \cup {Http(200, Body(c)) : c \in PageJson \cup {NotJson}}
NlpReplies == Failures \cup {Http(200, Body(c)) : c \in ContentJson \cup {NotJson}}

Pieces == {<<"<", "s", "v", "g", ">">>, CloseMarker, <<"H", "e", "r", "e", ":", " ">>}
RECURSIVE Texts(_)
Texts(n) == IF n = 0 THEN {<<>>} ELSE LET shorter == Texts(n - 1)
                                      IN shorter \cup {p \o s : p \in Pieces, s \in shorter}
SvgReplies == Failures \cup {Http(200, Body(None))}
                \cup {Http(200, Body(JText(c))) : c \in Texts(MaxPieces)}

(***************************************************************************)
(* The handlers of one reply, each returning the value the method returns, *)
(* the st.warning/st.error messages it writes and the cause of a failure.  *)
(***************************************************************************)
Outcome(v, m, c) == [value |-> v, msgs |-> m, cause |-> c]

\* PPTStyleAnalyzer.analyze_page_image, from the response on
analyze_page_image(r) ==
  IF r.kind = "neterr" THEN Outcome(None, <<"page_warning">>, "network")
  ELSE IF r.status # 200 THEN Outcome(None, <<"page_warning">>, "non200")
  ELSE IF ~r.body.ok THEN Outcome(None, <<"page_warning">>, "body")
  ELSE IF r.body.content = NotJson THEN Outcome(None, <<"page_warning">>, "json")
  ELSE Outcome(r.body.content, <<>>, "none")

\* NaturalLanguageProcessor.process_user_request, from the response on
process_user_request(r) ==
  IF r.kind = "neterr" THEN Outcome(None, <<"nlp_error">>, "network")
  ELSE IF r.status # 200 THEN Outcome(None, <<"nlp_error">>, "non200")
  ELSE IF ~r.body.ok THEN Outcome(None, <<"nlp_error">>, "body")
  ELSE IF r.body.content = NotJson THEN Outcome(None, <<"nlp_error">>, "json")
  ELSE Outcome(r.body.content, <<>>, "none")

\* a reply text without '<svg' or without '</svg>'
LacksMarker(c) == Find(c, OpenMarker) = -1 \/ Find(c, CloseMarker) = -1

\* SVGGenerator.generate_svg, from the response on; value is the returned svg
generate_svg(r) ==
  IF r.kind = "neterr" THEN Outcome(None, <<"svg_error">>, "network")
  ELSE IF r.status # 200 THEN Outcome(None, <<"svg_error">>, "non200")
  ELSE IF ~r.body.ok THEN Outcome(None, <<"svg_error">>, "body")
  ELSE IF r.body.content.t # "text" THEN Outcome(None, <<"svg_error">>, "body")
  ELSE LET x == ExtractSvg(r.body.content.chars)
       IN IF x.found
            THEN Outcome(x.clean_svg, <<>>,
                         IF LacksMarker(r.body.content.chars) THEN "markers" ELSE "none")
            ELSE Outcome(None, <<"svg_error">>, "markers")

(***************************************************************************)
(* The session: api_key.txt, the widgets and st.session_state.             *)
(***************************************************************************)
ApiUrl == "https://api.openai.com/v1/chat/completions"
PageLimit == 10      \* max_pages = min(10, doc.page_count)

Whitespace == {" ", "\n"}
Missing == [exists |-> FALSE]
KeyFile(tokens) == [exists |-> TRUE, text |-> tokens]
KeyFiles == {Missing, KeyFile(<<>>), KeyFile(<<"\n">>), KeyFile(<<"sk-1", "\n">>),
             KeyFile(<<" ", "sk-2">>)}

\* str.strip()
RECURSIVE Strip(_)
Strip(txt) ==
  IF txt = <<>> THEN txt
  ELSE IF Head(txt) \in Whitespace THEN Strip(Tail(txt))
  ELSE IF txt[Len(txt)] \in Whitespace THEN Strip(SubSeq(txt, 1, Len(txt) - 1))
  ELSE txt

\* load_api_key: the stripped text, or None with an st.error when the file is missing
load_api_key(file) == IF file.exists THEN Strip(file.text) ELSE <<>>

Component(key) == [openai_key |-> key, openai_url |-> ApiUrl]
PPTGenerationPipeline(openai_key) ==
  [style_analyzer |-> Component(openai_key),
   nlp_processor |-> Component(openai_key),
   svg_generator |-> Component(openai_key)]
NoPipeline == [absent |-> TRUE]

\* a script that builds the pipeline anew in every script run
SessionPipelineRecreated(stored, openai_key) == PPTGenerationPipeline(openai_key)

\* lines 652-653: the pipeline is created once per session
SessionPipeline(stored, openai_key) ==
  IF stored = NoPipeline THEN PPTGenerationPipeline(openai_key) ELSE stored

NoFile == [kind |-> "none"]
Corrupt == [kind |-> "corrupt"]                 \* fitz.open raises
Pdf(n) == [kind |-> "pdf", page_count |-> n]
Uploads == {NoFile, Corrupt} \cup {Pdf(n) : n \in 0..MaxPages}
Requests == {"", "draw a network"}

Min(a, b) == IF a < b THEN a ELSE b

\* the request a component POSTs
Request(stage, page, component) ==
  [stage |-> stage, page |-> page, key |-> component.openai_key, url |-> component.openai_url]

VARIABLES
  pipeline,        \* st.session_state.pipeline, NoPipeline before the first creation
  uploaded_file,   \* the widgets' values in the current script run
  user_input,
  generate_button,
  pc,              \* where the script is
  page_num,        \* analyze_pdf_with_gpt4v: loop index
  all_styles,      \* analyze_pdf_with_gpt4v: the styles collected
  style_data,      \* generate_ppt_slide: result of stage 1
  content_data,    \* generate_ppt_slide: result of stage 2
  final_prompt,    \* generate_svg: the prompt sent
  result,          \* what generate_ppt_slide returned (Raised: an exception left it)
  inflight,        \* requests POSTed and not yet answered
  calls,           \* the requests POSTed in this run, in order
  ui,              \* warnings, errors and error statuses written in this script run
  failures,        \* the causes of the failed replies of this run
  page_log,        \* per analysed page: what analyze_page_image returned, and why
  svg_reply,       \* the reply text of the SVG stage, None if there was none
  runs             \* pipeline runs started in this session

vars == <<pipeline, uploaded_file, user_input, generate_button, pc, page_num, all_styles,
          style_data, content_data, final_prompt, result, inflight, calls, ui, failures,
          page_log, svg_reply, runs>>

widgets == <<uploaded_file, user_input, generate_button>>
session == <<pipeline, runs>>
locals == <<page_num, all_styles, style_data, content_data, final_prompt>>
ghosts == <<failures, page_log, svg_reply>>

ResetRun ==
  /\ page_num' = 0
  /\ all_styles' = <<>>
  /\ style_data' = None
  /\ content_data' = None
  /\ final_prompt' = None
  /\ result' = None
  /\ inflight' = 0
  /\ calls' = <<>>
  /\ failures' = <<>>
  /\ page_log' = <<>>
  /\ svg_reply' = None

Init ==
  /\ pipeline = NoPipeline
  /\ uploaded_file = NoFile
  /\ user_input = ""
  /\ generate_button = FALSE
  /\ pc = "idle"
  /\ page_num = 0
  /\ all_styles = <<>>
  /\ style_data = None
  /\ content_data = None
  /\ final_prompt = None
  /\ result = None
  /\ inflight = 0
  /\ calls = <<>>
  /\ ui = <<>>
  /\ failures = <<>>
  /\ page_log = <<>>
  /\ svg_reply = None
  /\ runs = 0

\* the pipeline's "if not ...: status.update(state='error'); return None" and main's else branch
Abandon == <<"status_error", "main_error">>

\* a script that runs the pipeline whenever a file and a request are present
ClickedOrNot(button, file, text) == file # NoFile /\ text # ""

\* line 688: the condition under which main starts the pipeline
Clicked(button, file, text) == button /\ file # NoFile /\ text # ""

\* main(), one script run up to the call of generate_ppt_slide
Main ==
  \E keyfile \in KeyFiles, file \in Uploads, text \in Requests, button \in BOOLEAN :
    LET openai_key == load_api_key(keyfile) IN
    /\ pc = "idle"
    /\ ResetRun
    /\ IF openai_key = <<>>
         THEN /\ ui' = IF keyfile.exists THEN <<>> ELSE <<"key_error">>
              /\ uploaded_file' = NoFile
              /\ user_input' = ""
              /\ generate_button' = FALSE
              /\ pc' = "idle"
              /\ UNCHANGED session
         ELSE /\ ui' = <<>>
              /\ pipeline' = SessionPipeline(pipeline, openai_key)
              /\ uploaded_file' = file
              /\ user_input' = text
              /\ generate_button' = button
              /\ IF Clicked(button, file, text)
                   THEN /\ runs < MaxRuns
                        /\ runs' = runs + 1
                        /\ pc' = "analyze_pdf"
                   ELSE /\ runs' = runs
                        /\ pc' = "idle"

\* analyze_pdf_with_gpt4v up to the loop: read the file and open the document
OpenPdf ==
  /\ pc = "analyze_pdf"
  /\ IF uploaded_file.kind = "corrupt"
       THEN /\ ui' = ui \o <<"pdf_error", "pdf_error">> \o Abandon
            /\ failures' = Append(failures, "pdf")
            /\ pc' = "done"
       ELSE /\ pc' = "page_loop"
            /\ UNCHANGED <<ui, failures>>
  /\ UNCHANGED <<session, widgets, locals, result, inflight, calls, page_log, svg_reply>>

\* a loop over every page of the document
max_pages_unlimited == uploaded_file.page_count

max_pages == Min(PageLimit, uploaded_file.page_count)

\* the loop body up to requests.post of analyze_page_image
PostPage ==
  /\ pc = "page_loop"
  /\ page_num < max_pages
  /\ calls' = Append(calls, Request("style", page_num + 1, pipeline.style_analyzer))
  /\ inflight' = inflight + 1
  /\ pc' = "page_wait"
  /\ UNCHANGED <<session, widgets, locals, result, ui, ghosts>>

\* a loop that POSTs a failed page a second time before moving on
PageReplyRetry ==
  \E r \in PageReplies :
    LET o == analyze_page_image(r)
        again == ~Truthy(o.value) /\ Cardinality({i \in 1..Len(calls) : calls[i].page = page_num + 1}) < 2
    IN
    /\ pc = "page_wait"
    /\ inflight' = inflight - 1
    /\ IF Truthy(o.value)
         THEN /\ all_styles' = Append(all_styles, o.value)
              /\ ui' = ui
         ELSE /\ all_styles' = all_styles
              /\ ui' = ui \o o.msgs \o <<"pdf_warning">>
    /\ failures' = IF o.cause = "none" THEN failures ELSE Append(failures, o.cause)
    /\ page_log' = IF again THEN page_log
                   ELSE Append(page_log, [value |-> o.value, cause |-> o.cause])
    /\ page_num' = IF again THEN page_num ELSE page_num + 1
    /\ pc' = "page_loop"
    /\ UNCHANGED <<session, widgets, style_data, content_data, final_prompt, result, calls,
                   svg_reply>>

\* a loop that keeps every page style that is not None
CollectedUnlessNone(styles, page_style) ==
  IF page_style # None THEN Append(styles, page_style) ELSE styles

\* lines 54-55: "if page_style: all_styles.append(page_style)"
Collected(styles, page_style) ==
  IF Truthy(page_style) THEN Append(styles, page_style) ELSE styles

\* the rest of analyze_page_image and of the loop body (lines 146-164, 54-58),
\* for a reply drawn from R
PageReplyOver(R) ==
  \E r \in R :
    LET o == analyze_page_image(r) IN
    /\ pc = "page_wait"
    /\ inflight' = inflight - 1
    /\ all_styles' = Collected(all_styles, o.value)
    /\ ui' = IF Truthy(o.value) THEN ui ELSE ui \o o.msgs \o <<"pdf_warning">>
    /\ failures' = IF o.cause = "none" THEN failures ELSE Append(failures, o.cause)
    /\ page_log' = Append(page_log, [value |-> o.value, cause |-> o.cause])
    /\ page_num' = page_num + 1
    /\ pc' = "page_loop"
    /\ UNCHANGED <<session, widgets, style_data, content_data, final_prompt, result, calls,
                   svg_reply>>

PageReply == PageReplyOver(PageReplies)

\* lines 60-74: the value analyze_pdf_with_gpt4v returns once the loop is over
PdfOutcome(styles) ==
  IF styles = <<>> THEN Outcome(None, <<"pdf_error">>, "none")
  ELSE LET unified_style == merge_styles(styles)
       IN IF unified_style = Raised
            THEN Outcome(None, <<"pdf_error", "pdf_error">>, "merge")
            ELSE Outcome(unified_style, <<>>, "none")

\* an analyser that gives up as soon as one page has failed
PdfResultStrict ==
  IF \E i \in 1..Len(page_log) : ~Truthy(page_log[i].value)
    THEN Outcome(None, <<"pdf_error">>, "none")
    ELSE PdfOutcome(all_styles)

\* what analyze_pdf_with_gpt4v returns for the styles collected by the loop
PdfResult == PdfOutcome(all_styles)

\* the end of analyze_pdf_with_gpt4v and stage 1 of generate_ppt_slide (lines 460-466)
FinishPdf ==
  LET o == PdfResult IN
  /\ pc = "page_loop"
  /\ page_num >= max_pages
  /\ style_data' = o.value
  /\ failures' = IF o.cause = "none" THEN failures ELSE Append(failures, o.cause)
  /\ IF ~Truthy(o.value)
       THEN /\ ui' = ui \o o.msgs \o Abandon
            /\ pc' = "done"
       ELSE /\ ui' = ui \o o.msgs
            /\ pc' = "nlp_post"
  /\ UNCHANGED <<session, widgets, page_num, all_styles, content_data, final_prompt, result,
                 inflight, calls, page_log, svg_reply>>

\* process_user_request up to requests.post; the locals of the finished
\* analyze_pdf_with_gpt4v are gone
PostNlp ==
  /\ pc = "nlp_post"
  /\ calls' = Append(calls, Request("nlp", 0, pipeline.nlp_processor))
  /\ inflight' = inflight + 1
  /\ page_num' = 0
  /\ all_styles' = <<>>
  /\ page_log' = <<>>
  /\ pc' = "nlp_wait"
  /\ UNCHANGED <<session, widgets, style_data, content_data, final_prompt, result, ui,
                 failures, svg_reply>>

\* the rest of process_user_request and stage 2 of generate_ppt_slide (lines 470-476)
NlpReply ==
  \E r \in NlpReplies :
    LET o == process_user_request(r) IN
    /\ pc = "nlp_wait"
    /\ inflight' = inflight - 1
    /\ content_data' = o.value
    /\ failures' = IF o.cause = "none" THEN failures ELSE Append(failures, o.cause)
    /\ IF ~Truthy(o.value)
         THEN /\ ui' = ui \o o.msgs \o Abandon
              /\ pc' = "done"
         ELSE /\ ui' = ui \o o.msgs
              /\ pc' = "svg_post"
    /\ UNCHANGED <<session, widgets, page_num, all_styles, style_data, final_prompt, result,
                   calls, page_log, svg_reply>>

\* generate_svg up to requests.post: the prompt is built outside the try block
PostSvg ==
  LET prompt == create_svg_prompt(style_data, content_data) IN
  /\ pc = "svg_post"
  /\ IF prompt = Raised
       THEN /\ result' = Raised
            /\ failures' = Append(failures, "prompt")
            /\ pc' = "done"
            /\ UNCHANGED <<final_prompt, calls, inflight>>
       ELSE /\ final_prompt' = prompt
            /\ calls' = Append(calls, Request("svg", 0, pipeline.svg_generator))
            /\ inflight' = inflight + 1
            /\ pc' = "svg_wait"
            /\ UNCHANGED <<result, failures>>
  /\ UNCHANGED <<session, widgets, page_num, all_styles, style_data, content_data, ui,
                 page_log, svg_reply>>

\* the rest of generate_svg, stage 3 of generate_ppt_slide (lines 480-493) and main's report
SvgReply ==
  \E r \in SvgReplies :
    LET o == generate_svg(r) IN
    /\ pc = "svg_wait"
    /\ inflight' = inflight - 1
    /\ svg_reply' = IF r.kind = "http" /\ r.status = 200 /\ r.body.ok THEN r.body.content
                    ELSE None
    /\ failures' = IF o.cause = "none" THEN failures ELSE Append(failures, o.cause)
    /\ IF ~TruthySvg(o.value)
         THEN /\ result' = None
              /\ ui' = ui \o o.msgs \o Abandon
         ELSE /\ result' = [svg_content |-> o.value, extracted_style |-> style_data,
                            processed_content |-> content_data, final_prompt |-> final_prompt]
              /\ ui' = ui \o o.msgs
    /\ pc' = "done"
    /\ UNCHANGED <<session, widgets, locals, calls, page_log>>

\* main() returns (or the exception ends it): the script run is over and its
\* local variables are gone; the widgets keep their values until the next one
EndScript ==
  /\ pc = "done"
  /\ ResetRun
  /\ pc' = "idle"
  /\ UNCHANGED <<session, widgets, ui>>

Next ==
  \/ Main
  \/ EndScript
  \/ OpenPdf
  \/ PostPage
  \/ PageReply
  \/ FinishPdf
  \/ PostNlp
  \/ NlpReply
  \/ PostSvg
  \/ SvgReply

Spec == Init /\ [][Next]_vars

(***************************************************************************)
(* merge_styles on its own: the list is drawn at the start and merged.     *)
(***************************************************************************)
PaletteFields ==
  {EmptyMap,
   "color_palette" :> None,
   "color_palette" :> JObj([primary |-> JStr("#111"), secondary |-> JStr("")]),
   "color_palette" :> JObj([primary |-> JStr(""), secondary |-> JStr("#333")]),
   "color_palette" :> JObj([primary |-> JStr("#222"), accent |-> JStr("#444")])}
BrandFields == {EmptyMap, "brand_description" :> JStr("plain")}

MergeStyles ==
  {JObj(p @@ b) : p \in PaletteFields, b \in BrandFields}
    \cup {JObj([typography |-> JObj([title_font |-> JStr("Georgia")]),
                brand_description |-> JStr("bold"), has_diagrams |-> JBool(FALSE)]),
          JObj([typography |-> JObj([title_font |-> JStr("Arial"), body_font |-> JStr("")]),
                brand_description |-> JStr(""), has_diagrams |-> JBool(TRUE)]),
          StyleBadCategory}

MergeInputs == UNION {[1..n -> MergeStyles] : n \in 0..MaxMerge}

InitMerge ==
  /\ Init!1 /\ Init!2 /\ Init!3 /\ Init!4
  /\ pc = "merge_input"
  /\ page_num = 0
  /\ all_styles \in MergeInputs
  /\ style_data = None
  /\ content_data = None
  /\ final_prompt = None
  /\ result = None
  /\ inflight = 0
  /\ calls = <<>>
  /\ ui = <<>>
  /\ failures = <<>>
  /\ page_log = <<>>
  /\ svg_reply = None
  /\ runs = 0

\* unified_style = self.merge_styles(all_styles)
ApplyMerge ==
  /\ pc = "merge_input"
  /\ style_data' = merge_styles(all_styles)
  /\ pc' = "merge_done"
  /\ UNCHANGED <<session, widgets, page_num, all_styles, content_data, final_prompt, result,
                 inflight, calls, ui, ghosts>>

NextMerge == ApplyMerge

SpecMerge == InitMerge /\ [][NextMerge]_vars

(***************************************************************************)
(* analyze_pdf_with_gpt4v on its own, for PDFs longer than the page limit: *)
(* the run has been started by main and each page is answered either with  *)
(* a failure or with a style.                                              *)
(***************************************************************************)
LongPdfs == {Pdf(n) : n \in 0..MaxPdfPages}
FewReplies == {Http(500, BadBody), Http(200, Body(StyleA))}

InitPages ==
  /\ pipeline = PPTGenerationPipeline(<<"sk-1">>)
  /\ uploaded_file \in LongPdfs
  /\ user_input = "draw a network"
  /\ generate_button = TRUE
  /\ pc = "analyze_pdf"
  /\ page_num = 0
  /\ all_styles = <<>>
  /\ style_data = None
  /\ content_data = None
  /\ final_prompt = None
  /\ result = None
  /\ inflight = 0
  /\ calls = <<>>
  /\ ui = <<>>
  /\ failures = <<>>
  /\ page_log = <<>>
  /\ svg_reply = None
  /\ runs = 1

PageReplyFew == PageReplyOver(FewReplies)

NextPages ==
  \/ OpenPdf
  \/ PostPage
  \/ PageReplyFew
  \/ FinishPdf

SpecPages == InitPages /\ [][NextPages]_vars

(***************************************************************************)
(* Properties.                                                             *)
(***************************************************************************)
Least(S) == CHOOSE i \in S : \A j \in S : i <= j

\* page i holds a non-empty value for key in category cat
Holds(styles, i, cat, key) ==
  /\ cat \in DOMAIN styles[i].f
  /\ styles[i].f[cat].t = "obj"
  /\ key \in DOMAIN styles[i].f[cat].f
  /\ Truthy(styles[i].f[cat].f[key])

KeysIn(styles, cat) ==
  UNION {IF cat \in DOMAIN styles[i].f /\ styles[i].f[cat].t = "obj"
           THEN DOMAIN styles[i].f[cat].f ELSE {} : i \in 1..Len(styles)}

\* C8: merge_styles of two or more page styles is first-write-wins: in every
\* category each key carries the value of the earliest page holding a non-empty
\* value for it and is absent iff no page does; brand_description is the first
\* non-empty one in list order ("" when there is none).
C8_FirstWriteWins ==
  (pc = "merge_done" /\ Len(all_styles) >= 2 /\ style_data # Raised) =>
    /\ \A cat \in Categories :
         LET merged == style_data.f[cat].f IN
         \A key \in KeysIn(all_styles, cat) \cup DOMAIN merged :
           LET holders == {i \in 1..Len(all_styles) : Holds(all_styles, i, cat, key)}
           IN IF holders = {} THEN key \notin DOMAIN merged
              ELSE /\ key \in DOMAIN merged
                   /\ merged[key] = all_styles[Least(holders)].f[cat].f[key]
    /\ LET holders == {i \in 1..Len(all_styles) :
                         Truthy(Get(all_styles[i], "brand_description", None))}
       IN style_data.f.brand_description =
            IF holders = {} THEN JStr("")
            ELSE all_styles[Least(holders)].f.brand_description

\* two pages that both hold a value for the same key, and the values differ
C8_Witness ==
  /\ pc = "merge_done"
  /\ Len(all_styles) >= 2
  /\ style_data # Raised
  /\ \E i, j \in 1..Len(all_styles) :
       /\ i < j
       /\ Holds(all_styles, i, "color_palette", "primary")
       /\ Holds(all_styles, j, "color_palette", "primary")
       /\ all_styles[i].f.color_palette.f.primary # all_styles[j].f.color_palette.f.primary
       /\ style_data.f.color_palette.f.primary = all_styles[i].f.color_palette.f.primary

IsRecord(x) == "svg_content" \in DOMAIN x
Started == pc \notin {"idle", "merge_input", "merge_done"}
Running == Started /\ pc # "done"
Posted(stage) == \E i \in 1..Len(calls) : calls[i].stage = stage

\* C1: whatever the API replies in any stage, generate_ppt_slide ends by
\* returning a result record or None; no exception leaves it.
C1_NoExceptionEscapes ==
  pc = "done" => (result = None \/ IsRecord(result))

\* C2: an SVG-stage reply (HTTP 200) that lacks '<svg' or lacks '</svg>' makes
\* generate_svg return None and generate_ppt_slide return None.
C2_MissingMarkerFails ==
  (pc = "done" /\ svg_reply.t = "text" /\ LacksMarker(svg_reply.chars)) =>
    /\ ExtractSvg(svg_reply.chars).clean_svg = None
    /\ result = None

StartsWith(s, pat) == Len(s) >= Len(pat) /\ SubSeq(s, 1, Len(pat)) = pat
EndsWith(s, pat) == Len(s) >= Len(pat) /\ SubSeq(s, Len(s) - Len(pat) + 1, Len(s)) = pat

\* C3: whenever generate_svg returns a non-None SVG, that text begins with
\* '<svg', ends with '</svg>' and is the part of the reply from the first
\* '<svg' through the end of the first '</svg>'.
C3_ExtractedIsMarkup ==
  (pc = "done" /\ svg_reply.t = "text" /\ ExtractSvg(svg_reply.chars).found) =>
    LET svg == ExtractSvg(svg_reply.chars).clean_svg.chars
        first == Find(svg_reply.chars, OpenMarker)
        last == Find(svg_reply.chars, CloseMarker) + Len(CloseMarker)
    IN /\ StartsWith(svg, OpenMarker)
       /\ EndsWith(svg, CloseMarker)
       /\ svg = SubSeq(svg_reply.chars, first + 1, last)

StageRank(stage) == CASE stage = "style" -> 1 [] stage = "nlp" -> 2 [] stage = "svg" -> 3

SvgSucceeded ==
  /\ Posted("svg")
  /\ svg_reply.t = "text"
  /\ TruthySvg(ExtractSvg(svg_reply.chars).clean_svg)

\* C4: the stages run in the order style, request, SVG; a stage's request is
\* POSTed only if every earlier stage succeeded; and the run returns the
\* complete record iff all three stages succeeded, None otherwise.
C4_StagesInOrder ==
  Started =>
    /\ \A i, j \in 1..Len(calls) : i < j => StageRank(calls[i].stage) <= StageRank(calls[j].stage)
    /\ Posted("nlp") => Truthy(style_data)
    /\ Posted("svg") => Truthy(style_data) /\ Truthy(content_data)
    /\ pc = "done" =>
         /\ IsRecord(result) <=> (Truthy(style_data) /\ Truthy(content_data) /\ SvgSucceeded)
         /\ ~IsRecord(result) => result = None
         /\ IsRecord(result) =>
              /\ DOMAIN result = {"svg_content", "extracted_style", "processed_content", "final_prompt"}
              /\ result.extracted_style = style_data
              /\ result.processed_content = content_data
              /\ result.final_prompt = final_prompt

\* C5: in one run no request is POSTed twice: each page, the request
\* interpretation and the SVG generation at most once, failed or not.
C5_NoRetry ==
  \A i, j \in 1..Len(calls) :
    i # j => <<calls[i].stage, calls[i].page>> # <<calls[j].stage, calls[j].page>>

\* a run that met a failed reply and still went on to POST other requests
C5_Witness ==
  /\ pc = "done"
  /\ failures # <<>>
  /\ Len(calls) >= 3
  /\ failures[1] = "non200"
  /\ calls[1].stage = "style"

\* analyze_pdf_with_gpt4v has just returned
PdfDone == uploaded_file.kind = "pdf" /\ pc \in {"nlp_post", "done"} /\ ~Posted("nlp")
Succeeded(entry) == Truthy(entry.value)
Values(log) == [i \in 1..Len(log) |-> log[i].value]

\* C6 as stated: if any single page fails with a non-200 status or a JSON
\* decode failure, analyze_pdf_with_gpt4v returns None and the run fails.
C6_AnyPageFailureAbandons ==
  (PdfDone /\ \E i \in 1..Len(page_log) : page_log[i].cause \in {"non200", "json"}) =>
    /\ style_data = None
    /\ pc = "done" /\ result = None

\* C6 amended: if every analysed page fails, analyze_pdf_with_gpt4v returns
\* None and the run fails; otherwise the failed pages are skipped and the
\* style is merge_styles of the styles of the pages that succeeded, in page
\* order (None when that merge raises).
C6_FailedPagesAreSkipped ==
  PdfDone =>
    LET good == SelectSeq(page_log, Succeeded) IN
    /\ Len(page_log) = Min(PageLimit, uploaded_file.page_count)
    /\ good = <<>> => style_data = None /\ pc = "done" /\ result = None
    /\ good # <<>> =>
         style_data = IF merge_styles(Values(good)) = Raised THEN None
                      ELSE merge_styles(Values(good))

\* a page failed with a non-200 status and a style was still produced
C6_Witness ==
  /\ PdfDone
  /\ \E i \in 1..Len(page_log) : page_log[i].cause = "non200"
  /\ \E i \in 1..Len(page_log) : Succeeded(page_log[i])
  /\ Truthy(style_data)

Reports == {i \in 1..Len(ui) : ui[i] # "status_error"}

\* C7: a run with a single failure cause (one non-200 response, one JSON
\* decode failure or one reply without SVG markers) shows exactly one
\* error/warning message.
C7_ReportedOnce ==
  (pc = "done" /\ Len(failures) = 1 /\ failures[1] \in {"non200", "json", "markers"}) =>
    Cardinality(Reports) = 1

\* C9: once created, the session's pipeline object (its three components,
\* their key and URL) is never changed, by a run or by a later script run.
C9_PipelineUnchanged ==
  [][pipeline # NoPipeline => pipeline' = pipeline]_vars

\* a second run of the session has produced a record
C9_Witness ==
  /\ runs = 2
  /\ pc = "done"
  /\ IsRecord(result)
  /\ pipeline # NoPipeline

\* C10: requests are POSTed only inside a run, a run exists only after a
\* click of Generate with a file, a non-empty request and a loaded key, a
\* run starts only when no other is under way, and at most one request is
\* outstanding.
C10_RequestPerClick ==
  /\ [](/\ inflight \in {0, 1}
        /\ inflight = 1 <=> pc \in {"page_wait", "nlp_wait", "svg_wait"}
        /\ Started =>
             /\ generate_button
             /\ uploaded_file # NoFile
             /\ user_input # ""
             /\ pipeline # NoPipeline
             /\ pipeline.style_analyzer.openai_key # <<>>
        /\ ~Started => calls = <<>>)
  /\ [][/\ runs' # runs => (~Started /\ inflight = 0 /\ runs' = runs + 1 /\ pc' = "analyze_pdf")
        /\ (calls' # calls /\ calls' # <<>>) => (Running /\ Running' /\ Len(calls') = Len(calls) + 1)]_vars

\* a request is outstanding in the SVG stage
C10_Witness ==
  /\ pc = "svg_wait"
  /\ inflight = 1
  /\ Len(calls) >= 2

\* the pages POSTed so far, in the order of the requests
PagesPosted == [i \in 1..Len(calls) |-> calls[i].page]
UpTo(n) == [i \in 1..n |-> i]
LoopOver ==
  uploaded_file.kind = "pdf" /\ pc \in {"nlp_post", "done"} /\ ~Posted("nlp")

\* C11: analyze_pdf_with_gpt4v POSTs one request per page for the first
\* min(10, page_count) pages, in increasing page order, never a page beyond
\* the tenth; a PDF without pages sends no request and yields None.
C11_FirstTenPages ==
  uploaded_file.kind = "pdf" =>
    LET limit == IF uploaded_file.page_count < 10 THEN uploaded_file.page_count ELSE 10 IN
    /\ \A i \in 1..Len(calls) : calls[i].stage = "style" => calls[i].page = i /\ i <= limit
    /\ LoopOver =>
         /\ PagesPosted = UpTo(limit)
         /\ Len(page_log) = limit
         /\ uploaded_file.page_count = 0 => calls = <<>> /\ style_data = None

\* a PDF of more than ten pages has been analysed: ten requests, not more
C11_Witness ==
  /\ LoopOver
  /\ uploaded_file.page_count > 10
  /\ Len(calls) = 10
  /\ calls[10].page = 10

\* a page style that is an object whose category fields are objects or absent
WellFormed(style) ==
  /\ style.t = "obj"
  /\ \A cat \in Categories : cat \in DOMAIN style.f => style.f[cat].t = "obj"

Count(q, x) == Cardinality({i \in 1..Len(q) : q[i] = x})

\* C12: when every successful page style is an object whose categories are
\* objects or absent, analyze_pdf_with_gpt4v returns a style iff some analysed
\* page yields a truthy JSON value; that style is merge_styles of exactly the
\* successful pages' styles in page order; and a page whose reply parses to a
\* falsy value ({} included) is treated as a failed page: not collected, and
\* warned about like any other failure.
C12_StyleIffSomePageSucceeds ==
  LET good == SelectSeq(page_log, Succeeded) IN
  (LoopOver /\ \A i \in 1..Len(good) : WellFormed(good[i].value)) =>
    /\ style_data # None <=> good # <<>>
    /\ good # <<>> => style_data = merge_styles(Values(good)) /\ pc = "nlp_post"
    /\ all_styles = Values(good)
    /\ Count(ui, "pdf_warning") = Len(page_log) - Len(good)

\* one page answered {} and was skipped, the other answered a style, which is returned
C12_Witness ==
  /\ LoopOver
  /\ Len(page_log) = 2
  /\ page_log[1].value = JObj(EmptyMap)
  /\ page_log[1].cause = "none"
  /\ page_log[2].value = StyleA
  /\ style_data = StyleA
  /\ ui = <<"pdf_warning">>

\* C13: for two or more page styles that are objects whose categories are
\* objects or absent, merge_styles returns an object with exactly the keys
\* color_palette, typography, layout, visual_style, brand_description and
\* has_diagrams; every category is a map without falsy values whose keys all
\* occur in that category of some page; has_diagrams is the OR of the pages'
\* has_diagrams, a missing one counting as false.
C13_MergedShape ==
  (/\ pc = "merge_done"
   /\ Len(all_styles) >= 2
   /\ \A i \in 1..Len(all_styles) : WellFormed(all_styles[i])) =>
    /\ style_data.t = "obj"
    /\ DOMAIN style_data.f = Categories \cup {"brand_description", "has_diagrams"}
    /\ \A cat \in Categories :
         /\ style_data.f[cat].t = "obj"
         /\ \A key \in DOMAIN style_data.f[cat].f :
              /\ Truthy(style_data.f[cat].f[key])
              /\ key \in KeysIn(all_styles, cat)
    /\ style_data.f.has_diagrams =
         JBool(\E i \in 1..Len(all_styles) :
                 /\ "has_diagrams" \in DOMAIN all_styles[i].f
                 /\ all_styles[i].f.has_diagrams = JBool(TRUE))

\* a page holds an empty value that no other page fills, one page says it has
\* diagrams, one says it has none and one says nothing
C13_Witness ==
  /\ pc = "merge_done"
  /\ Len(all_styles) >= 3
  /\ \A i \in 1..Len(all_styles) : WellFormed(all_styles[i])
  /\ \E i \in 1..Len(all_styles) :
       /\ "color_palette" \in DOMAIN all_styles[i].f
       /\ "secondary" \in DOMAIN all_styles[i].f.color_palette.f
       /\ ~Truthy(all_styles[i].f.color_palette.f.secondary)
  /\ "secondary" \notin DOMAIN style_data.f.color_palette.f
  /\ "primary" \in DOMAIN style_data.f.color_palette.f
  /\ \E i \in 1..Len(all_styles) : "has_diagrams" \notin DOMAIN all_styles[i].f
  /\ \E i \in 1..Len(all_styles) : Get(all_styles[i], "has_diagrams", None) = JBool(FALSE)
  /\ style_data.f.has_diagrams = JBool(TRUE)

====
